---- MODULE Spec2Model ----
(***************************************************************************)
(* The synthetic-data generator of scripts/generate_data.py as state       *)
(* machines: the road-network generator, the pavement-condition generator  *)
(* and the maintenance replay.                                             *)
(*                                                                         *)
(* Numbers with a fractional part (scores, percentages, noise draws) are   *)
(* fixed-point integers in hundred-thousandths: Pts(85) is 85.0, and a     *)
(* traffic volume divided by 100000 is a whole number of units.  The       *)
(* program holds these numbers as doubles: a fixed-point x stands for the  *)
(* double nearest to x / 100000, and where the program's result depends on *)
(* the difference between that double and x (a comparison at its limit, a  *)
(* rounding at a tie, a truncation at a whole number) the model follows    *)
(* the double.  Random draws are inputs, chosen with \E.                   *)
(*                                                                         *)
(* An output table is kept as its key columns, in full and in order; the   *)
(* other columns are kept for the row the latest iteration appended.       *)
(***************************************************************************)
EXTENDS Integers, Sequences, FiniteSets, TLC

VARIABLES
    pc,                  \* which loop of which generator is running
    \* generate_road_network
    road_id,             \* loop variable of the road loop (1-based)
    n_segments_road,     \* Poisson draw of the current road
    seg_id,              \* loop variable of the segment loop (1-based)
    roads,               \* key columns (road_id, segment_id) of the rows appended
    road_row,            \* the row appended by the latest iteration
    \* generate_pavement_condition_data
    roads_df,            \* the network table the generator is given
    current_date,        \* loop variable of the date loop
    road_idx,            \* position of the iterrows() loop in roads_df
    condition_data,      \* key columns (segment_id, date) of the rows appended
    observation,         \* the row appended by the latest iteration
    \* generate_maintenance_records
    segment_idx,         \* position of the loop over unique segment ids
    row_idx,             \* position of the iterrows() loop in segment_data
    last_repair_date,
    last_condition,
    maintenance_id,
    row,                 \* the observation the latest iteration replayed
    needs_repair,        \* its trigger decision
    maintenance_records, \* key columns (maintenance_id, segment_id) appended
    record               \* the record appended by the latest iteration, or NoRecord

vars == <<pc, road_id, n_segments_road, seg_id, roads, road_row,
          roads_df, current_date, road_idx, condition_data, observation,
          segment_idx, row_idx, last_repair_date, last_condition,
          maintenance_id, row, needs_repair, maintenance_records, record>>

netVars == <<road_id, n_segments_road, seg_id, roads, road_row>>
condVars == <<roads_df, current_date, road_idx, condition_data, observation>>
maintVars == <<segment_idx, row_idx, last_repair_date, last_condition,
               maintenance_id, row, needs_repair, maintenance_records, record>>

(***************************************************************************)
(* Bounds of the model.                                                    *)
(***************************************************************************)
\* rows of the network table handed to the condition generator, and
\* segments in the condition table handed to the maintenance replay
NSegments == 2
\* reporting periods in the condition table handed to the maintenance replay
NPeriods == 5
\* roads generated by generate_road_network (n_roads is 200 in the source)
NRoads == 3
\* largest Poisson draw enumerated for a road's segment count
MaxSegmentsPerRoad == 2

(***************************************************************************)
(* Fixed point, min/max, rounding.                                         *)
(***************************************************************************)
\* n and n tenths in hundred-thousandths
Pts(n) == n * 100000
Tenths(n) == n * 10000

Max(a, b) == IF a >= b THEN a ELSE b
Min(a, b) == IF a <= b THEN a ELSE b

\* int(x) of a fixed-point x >= 0 with `one` units to 1: truncation
TruncToInt(x, one) == IF x >= 0 THEN x \div one ELSE -((-x) \div one)

\* round(x, 1) of a double that is x exactly, x >= 0 with `one` units to 1:
\* the nearest tenth, a tie going to the even tenth
Round1(x, one) ==
    LET tenth == one \div 10
        q == x \div tenth
        r == x % tenth
    IN  IF 2 * r < tenth THEN Tenths(q)
        ELSE IF 2 * r > tenth THEN Tenths(q + 1)
        ELSE IF q % 2 = 0 THEN Tenths(q) ELSE Tenths(q + 1)

\* round(x, 1) of the double the program holds for x.  Off a tie the double
\* rounds as x does.  On a tie a double that is x exactly goes to the even
\* tenth; a double that is not lies a little to one side of the tie, and which
\* tenth round() returns depends on that side and on whether it is the round
\* of a numpy float64 or of a Python float: both tenths are outcomes.
Round1Outcomes(x, one, exact) ==
    IF exact \/ 2 * (x % (one \div 10)) # one \div 10
    THEN {Round1(x, one)}
    ELSE {Round1(x - 1, one), Round1(x + 1, one)}

(***************************************************************************)
(* Doubles.  For 1/16 <= x < 128 the double nearest to x has a 53-bit      *)
(* mantissa M and an exponent e with x ~ M * 2^(e - 52); its distance from *)
(* x is computed from the remainder of x * 2^(52 - e), in units of         *)
(* 2^-56 / 100000 so that it is a whole number.                            *)
(***************************************************************************)
RECURSIVE Pow2(_)
Pow2(n) == IF n = 0 THEN 1 ELSE 2 * Pow2(n - 1)

\* the e with 2^e <= x < 2^(e + 1)
Exponent(x) ==
    CHOOSE e \in -4..6 :
        Pow2(e + 4) * Pts(1) <= 16 * x /\ 16 * x < Pow2(e + 5) * Pts(1)

\* (x * 2^s) mod 100000, the fixed-point x read as a whole number of units
RECURSIVE ShiftMod(_, _)
ShiftMod(x, s) == IF s = 0 THEN x % Pts(1) ELSE ShiftMod((2 * x) % Pts(1), s - 1)

\* (the double nearest to x) - x, for x = 0 or 1/16 <= x < 128
DoubleError(x) ==
    IF x = 0 THEN 0
    ELSE LET e == Exponent(x)
             r == ShiftMod(x, 52 - e)
         IN  (IF 2 * r < Pts(1) THEN -r ELSE Pts(1) - r) * Pow2(e + 4)

\* DoubleError of the numbers from 0 to 100 with one decimal, which is what
\* the condition_score column holds
TenthErrors == [k \in 0..1000 |-> DoubleError(Tenths(k))]

\* DoubleError, looked up for a number with one decimal
ErrorOf(x) ==
    IF x % Tenths(1) = 0 /\ x \div Tenths(1) \in DOMAIN TenthErrors
    THEN TenthErrors[x \div Tenths(1)]
    ELSE DoubleError(x)

\* the double nearest to x is x: x is a multiple of 1/32
IsExactDouble(x) == x % (Pts(1) \div 32) = 0

\* a > limit for the double a of a difference of two doubles, given as the
\* difference of their fixed points and the difference of their errors: the
\* subtraction rounds to the nearest double, so a is above the limit when the
\* exact difference is above it by more than half the spacing of the doubles
\* at the limit (the limit, 15, has an even mantissa and wins the tie)
Exceeds(a, limit) ==
    \/ a.decimal > limit
    \/ a.decimal = limit /\ a.error > Pts(1) * Pow2(Exponent(limit) + 3)

(***************************************************************************)
(* Dates: datetime(year, month, day), and the .days of a difference.       *)
(***************************************************************************)
Date(y, m, d) == [year |-> y, month |-> m, day |-> d]

\* last_repair_date = None
None == Date(0, 0, 0)

IsLeap(y) == (y % 4 = 0) /\ ((y % 100 # 0) \/ (y % 400 = 0))

DaysInMonth(y, m) ==
    IF m = 2 THEN (IF IsLeap(y) THEN 29 ELSE 28)
    ELSE IF m \in {4, 6, 9, 11} THEN 30 ELSE 31

RECURSIVE DaysBeforeMonth(_, _)
DaysBeforeMonth(y, m) ==
    IF m = 1 THEN 0 ELSE DaysBeforeMonth(y, m - 1) + DaysInMonth(y, m - 1)

DaysBeforeYear(y) ==
    (y - 1) * 365 + ((y - 1) \div 4) - ((y - 1) \div 100) + ((y - 1) \div 400)

\* the proleptic Gregorian ordinal of a date
Ordinal(d) == DaysBeforeYear(d.year) + DaysBeforeMonth(d.year, d.month) + d.day

\* (a - b).days
DaysBetween(a, b) == Ordinal(a) - Ordinal(b)

start_date == Date(2020, 1, 1)
end_date == Date(2024, 12, 31)

\* NextDate stepping one month at a time
NextDateMonthly(d) ==
    IF d.month = 12
    THEN [d EXCEPT !.year = d.year + 1, !.month = 1]
    ELSE [d EXCEPT !.month = d.month + 1]

\* "Move to next quarter": the stepping at the bottom of the date loop
NextDate(d) ==
    IF d.month \in {1, 4, 7, 10}
    THEN IF d.month = 10
         THEN [d EXCEPT !.year = d.year + 1, !.month = 1]
         ELSE [d EXCEPT !.month = d.month + 3]
    ELSE IF d.month = 12
         THEN [d EXCEPT !.year = d.year + 1, !.month = 1]
         ELSE [d EXCEPT !.month = d.month + 1]

\* while current_date <= end_date
InRange(d) == Ordinal(d) <= Ordinal(end_date)

\* the date of the n-th iteration of the date loop
RECURSIVE PeriodDate(_)
PeriodDate(n) == IF n = 1 THEN start_date ELSE NextDate(PeriodDate(n - 1))

(***************************************************************************)
(* Identifiers: f"R{road_id:03d}", f"{road_name}_S{seg_id:03d}" and        *)
(* f"M{maintenance_id:06d}".                                               *)
(***************************************************************************)
RECURSIVE ZeroPad(_, _)
ZeroPad(s, width) == IF Len(s) >= width THEN s ELSE ZeroPad("0" \o s, width)

RoadName(r) == "R" \o ZeroPad(ToString(r), 3)

\* SegmentId without the road name in front
SegmentIdNoRoad(road_name, s) == "S" \o ZeroPad(ToString(s), 3)

SegmentId(road_name, s) == road_name \o "_S" \o ZeroPad(ToString(s), 3)

MaintenanceIdText(n) == "M" \o ZeroPad(ToString(n), 6)

(***************************************************************************)
(* generate_maintenance_records(condition_df)                              *)
(***************************************************************************)
\* The segment column of the table handed in: NSegments segments of one road.
InputSegmentId(i) == SegmentId(RoadName(1), i)

\* Key columns of condition_df as the condition generator lays them out:
\* period by period, the segments in network order within a period.
condition_df ==
    [k \in 1..(NPeriods * NSegments) |->
        [segment_id |-> InputSegmentId(((k - 1) % NSegments) + 1),
         date |-> PeriodDate(((k - 1) \div NSegments) + 1)]]

\* Values the other columns of an observation are drawn from: these scores
\* with each of these pothole counts at cracking 20.0 and with cracking 20.1
\* at the smallest and the largest pothole count, the pothole counts next to
\* the two pothole thresholds, and scores with a tenth (what round(x, 1)
\* leaves in the column) that lie 15.0 apart.
ScoreValues == {Pts(30), Pts(40), Pts(60), Pts(70), Pts(85), Pts(100)}
PotholeValues == {0, 4, 6}
CrackingValues == {Tenths(200), Tenths(201)}
TenthScoreValues == {Tenths(619), Tenths(769)}

ObservationValues ==
    {[condition_score |-> s, pothole_count |-> p, cracking_percent |-> Pts(20)] :
        s \in ScoreValues, p \in PotholeValues}
    \cup {[condition_score |-> s, pothole_count |-> 0, cracking_percent |-> c] :
        s \in ScoreValues, c \in CrackingValues}
    \cup {[condition_score |-> Pts(30), pothole_count |-> 6, cracking_percent |-> c] :
        c \in CrackingValues}
    \cup {[condition_score |-> s, pothole_count |-> p, cracking_percent |-> Pts(20)] :
        s \in {Pts(85), Pts(100)}, p \in {3, 5}}
    \cup {[condition_score |-> s, pothole_count |-> 0, cracking_percent |-> Pts(20)] :
        s \in TenthScoreValues}

\* condition_df['segment_id'].unique(): the ids in order of first appearance
RECURSIVE Unique(_)
Unique(s) ==
    IF s = <<>> THEN <<>>
    ELSE LET front == Unique(SubSeq(s, 1, Len(s) - 1))
             x == s[Len(s)]
         IN  IF \E i \in 1..Len(front) : front[i] = x
             THEN front ELSE Append(front, x)

SegmentIds == Unique([k \in 1..Len(condition_df) |-> condition_df[k].segment_id])

\* .sort_values('date')
RECURSIVE InsertByDate(_, _)
InsertByDate(s, x) ==
    IF s = <<>> THEN <<x>>
    ELSE IF Ordinal(s[Len(s)].date) <= Ordinal(x.date) THEN Append(s, x)
    ELSE Append(InsertByDate(SubSeq(s, 1, Len(s) - 1), x), s[Len(s)])

RECURSIVE SortByDate(_)
SortByDate(s) ==
    IF s = <<>> THEN <<>>
    ELSE InsertByDate(SortByDate(SubSeq(s, 1, Len(s) - 1)), s[Len(s)])

\* condition_df[condition_df['segment_id'] == segment_id].sort_values('date')
IsSegment(r, segment_id) == r.segment_id = segment_id

SegmentData(segment_id) ==
    SortByDate(SelectSeq(condition_df, LAMBDA r : IsSegment(r, segment_id)))

\* segment_data of each iteration of the outer loop
SegmentTables == [i \in 1..Len(SegmentIds) |-> SegmentData(SegmentIds[i])]

\* ConditionDrop with the operands swapped
ConditionDropSwapped(lastCondition, r) ==
    [decimal |-> r.condition_score - lastCondition,
     error |-> ErrorOf(r.condition_score) - ErrorOf(lastCondition)]

\* condition_drop = last_condition - row['condition_score'], a difference of
\* two doubles: the difference of the fixed points, and of the errors
ConditionDrop(lastCondition, r) ==
    [decimal |-> lastCondition - r.condition_score,
     error |-> ErrorOf(lastCondition) - ErrorOf(r.condition_score)]

\* "last_repair_date and (row['date'] - last_repair_date).days > 365"
AnnualDue(r, lastRepairDate) ==
    lastRepairDate # None /\ DaysBetween(r.date, lastRepairDate) > 365

\* NeedsRepair without the annual-maintenance trigger
NeedsRepairNoAnnual(r, lastCondition, lastRepairDate) ==
    \/ r.condition_score < Pts(60)
    \/ r.pothole_count > 5
    \/ Exceeds(ConditionDrop(lastCondition, r), Pts(15))

\* needs_repair
NeedsRepair(r, lastCondition, lastRepairDate) ==
    \/ r.condition_score < Pts(60)
    \/ r.pothole_count > 5
    \/ Exceeds(ConditionDrop(lastCondition, r), Pts(15))
    \/ AnnualDue(r, lastRepairDate)

\* RepairType with the pothole test ahead of the score test
RepairTypePotholesFirst(r) ==
    IF r.pothole_count > 3 THEN "pothole_patch"
    ELSE IF r.condition_score < Pts(40) THEN "resurfacing"
    ELSE IF r.cracking_percent > Pts(20) THEN "crack_sealing"
    ELSE "preventive_maintenance"

\* the if/elif chain that picks repair_type
RepairType(r) ==
    IF r.condition_score < Pts(40) THEN "resurfacing"
    ELSE IF r.pothole_count > 3 THEN "pothole_patch"
    ELSE IF r.cracking_percent > Pts(20) THEN "crack_sealing"
    ELSE "preventive_maintenance"

\* ConditionAfterRepair with an improvement of 10 instead of 20
ConditionAfterRepairTen(r) == Min(Pts(100), r.condition_score + Pts(10))

\* last_condition after a repair: min(100, score + 20).  For a score with one
\* decimal the double sum score + 20 is the double nearest to the decimal sum.
ConditionAfterRepair(r) == Min(Pts(100), r.condition_score + Pts(20))

\* NextLastCondition without the post-repair improvement
NextLastConditionNoReset(r, repaired) == r.condition_score

\* last_condition at the end of an iteration
NextLastCondition(r, repaired) ==
    IF repaired THEN ConditionAfterRepair(r) ELSE r.condition_score

\* last_repair_date at the end of an iteration
NextLastRepairDate(r, repaired, lastRepairDate) ==
    IF repaired THEN r.date ELSE lastRepairDate

\* NextMaintenanceId without the increment
NextMaintenanceIdStuck(id, repaired) == id

\* maintenance_id at the end of an iteration
NextMaintenanceId(id, repaired) == IF repaired THEN id + 1 ELSE id

\* the dict appended to maintenance_records
MaintenanceRecord(id, r) ==
    [maintenance_id |-> MaintenanceIdText(id),
     segment_id |-> r.segment_id,
     date |-> r.date,
     repair_type |-> RepairType(r),
     condition_before |-> r.condition_score]

NoRecord ==
    [maintenance_id |-> "", segment_id |-> "", date |-> None,
     repair_type |-> "", condition_before |-> 0]

NoRow ==
    [segment_id |-> "", date |-> None, condition_score |-> 0,
     pothole_count |-> 0, cracking_percent |-> 0]

RecordKey(rec) == [maintenance_id |-> rec.maintenance_id, segment_id |-> rec.segment_id]

\* values before the first segment is entered
InitMaint ==
    /\ segment_idx = 0
    /\ row_idx = 0
    /\ last_repair_date = None
    /\ last_condition = Pts(100)
    /\ maintenance_id = 1
    /\ row = NoRow
    /\ needs_repair = FALSE
    /\ maintenance_records = <<>>
    /\ record = NoRecord

\* for segment_id in ...unique(): the head of the outer loop
MaintSegment ==
    /\ pc = "segment"
    /\ segment_idx < Len(SegmentIds)
    /\ segment_idx' = segment_idx + 1
    /\ row_idx' = 0
    /\ last_repair_date' = None
    /\ last_condition' = Pts(100)
    /\ pc' = "rows"
    /\ UNCHANGED <<maintenance_id, row, needs_repair, maintenance_records, record>>
    /\ UNCHANGED <<netVars, condVars>>

\* one iteration of "for _, row in segment_data.iterrows()"
MaintRow ==
    /\ pc = "rows"
    /\ LET data == SegmentTables[segment_idx]
       IN  /\ row_idx < Len(data)
           /\ \E v \in ObservationValues :
                 LET r == [segment_id |-> data[row_idx + 1].segment_id,
                           date |-> data[row_idx + 1].date,
                           condition_score |-> v.condition_score,
                           pothole_count |-> v.pothole_count,
                           cracking_percent |-> v.cracking_percent]
                     repaired == NeedsRepair(r, last_condition, last_repair_date)
                     rec == MaintenanceRecord(maintenance_id, r)
                 IN  /\ row' = r
                     /\ needs_repair' = repaired
                     /\ record' = IF repaired THEN rec ELSE NoRecord
                     /\ maintenance_records' =
                            IF repaired
                            THEN Append(maintenance_records, RecordKey(rec))
                            ELSE maintenance_records
                     /\ maintenance_id' = NextMaintenanceId(maintenance_id, repaired)
                     /\ last_repair_date' =
                            NextLastRepairDate(r, repaired, last_repair_date)
                     /\ last_condition' = NextLastCondition(r, repaired)
           /\ row_idx' = row_idx + 1
           /\ pc' = IF row_idx + 1 = Len(data) THEN "segment" ELSE "rows"
    /\ UNCHANGED segment_idx
    /\ UNCHANGED <<netVars, condVars>>

\* return pd.DataFrame(maintenance_records)
MaintDone ==
    /\ pc = "segment"
    /\ segment_idx = Len(SegmentIds)
    /\ pc' = "maintenance_done"
    /\ UNCHANGED <<maintVars, netVars, condVars>>

(***************************************************************************)
(* generate_pavement_condition_data(roads_df)                              *)
(***************************************************************************)
\* (road_type, traffic_volume) of the rows of the network table handed in
RoadKinds ==
    {[road_type |-> "Highway", traffic_volume |-> 75000],
     [road_type |-> "Arterial", traffic_volume |-> 35617],
     [road_type |-> "Local", traffic_volume |-> 1000]}

\* np.random.normal(0, 3): the draws enumerated for random_factor (-120,
\* -19.64383, 0, 0.1 and 40)
RandomFactorValues == {-Pts(120), -1964383, 0, Tenths(1), Pts(40)}
\* np.random.normal(0, 2): the draws enumerated for the cracking noise (-40,
\* 0.05 and 0.25)
CrackingNoiseValues == {-Pts(40), 5000, 25000}
\* np.random.poisson(0.5): the draws enumerated for the pothole noise
PotholeNoiseValues == {0, 3}
\* np.random.poisson(2): the draws enumerated for freeze-thaw cycles
FreezeThawValues == {0, 2}

IsWinter(month) == month \in {12, 1, 2}

SeasonalFactor(month) ==
    IF IsWinter(month) THEN -Pts(5)
    ELSE IF month \in {6, 7, 8} THEN Pts(2)
    ELSE 0

\* -road['traffic_volume'] / 100000: one unit for every vehicle
TrafficFactor(traffic_volume) == -(traffic_volume * (Pts(1) \div 100000))

RoadFactor(road_type) ==
    IF road_type = "Highway" THEN Pts(5)
    ELSE IF road_type = "Local" THEN -Pts(3)
    ELSE 0

\* ClampScore without the upper clamp
ClampScoreNoCeiling(x) == Max(0, x)

\* max(0, min(100, x))
ClampScore(x) == Max(0, Min(Pts(100), x))

\* base_score + seasonal_factor + traffic_factor + road_factor + random_factor
ScoreSum(month, road, random_factor) ==
    Pts(85) + SeasonalFactor(month) + TrafficFactor(road.traffic_volume)
        + RoadFactor(road.road_type) + random_factor

\* condition_score, before it is rounded into the row
ConditionScore(month, road, random_factor) ==
    ClampScore(ScoreSum(month, road, random_factor))

\* The double the program holds for condition_score is the fixed-point value
\* exactly: the clamp returned the integer 0 or 100, or every addend of the
\* sum is a double exactly and so is every partial sum.
ScoreIsExact(month, road, random_factor) ==
    \/ ScoreSum(month, road, random_factor) < 0
    \/ ScoreSum(month, road, random_factor) > Pts(100)
    \/ /\ IsExactDouble(TrafficFactor(road.traffic_volume))
       /\ IsExactDouble(random_factor)

\* max(0, (100 - condition_score) * 0.3 + noise), in millionths: the product
\* has one decimal more than the score
CrackingPercent(score, noise) == Max(0, (Pts(100) - score) * 3 + noise * 10)

\* The double the program holds for cracking_percent is the fixed-point value
\* exactly: 100 - condition_score is 0, so the product with 0.3 (not a double
\* exactly) is 0, and the noise is a double exactly.
CrackingIsExact(score, scoreExact, noise) ==
    scoreExact /\ score = Pts(100) /\ IsExactDouble(noise)

\* max(0, int((100 - condition_score) / 20 + noise)).  When the quotient is a
\* whole number q > 0 and the double of condition_score is not exact, the
\* double quotient is q or just below q, and int() gives q or q - 1.
PotholeCounts(score, noise, exact) ==
    LET n == TruncToInt((Pts(100) - score) + 20 * Pts(noise), 20 * Pts(1))
    IN  IF exact \/ (Pts(100) - score) % Pts(20) # 0 \/ score = Pts(100)
        THEN {Max(0, n)}
        ELSE {Max(0, n - 1), Max(0, n)}

\* np.random.poisson(2) if month in [12, 1, 2] else 0
FreezeThawDraws(month) == IF IsWinter(month) THEN FreezeThawValues ELSE {0}

\* the dicts the draws can make condition_data.append receive
Observations(road, date, random_factor, crackNoise, potholeNoise, freezeThaw) ==
    LET score == ConditionScore(date.month, road, random_factor)
        exact == ScoreIsExact(date.month, road, random_factor)
    IN  {[segment_id |-> road.segment_id,
          date |-> date,
          condition_score |-> s,
          cracking_percent |-> c,
          pothole_count |-> p,
          freeze_thaw_cycles |-> freezeThaw] :
         s \in Round1Outcomes(score, Pts(1), exact),
         c \in Round1Outcomes(CrackingPercent(score, crackNoise), 10 * Pts(1),
                              CrackingIsExact(score, exact, crackNoise)),
         p \in PotholeCounts(score, potholeNoise, exact)}

NoObservation ==
    [segment_id |-> "", date |-> None, condition_score |-> 0,
     cracking_percent |-> 0, pothole_count |-> 0, freeze_thaw_cycles |-> 0]

ObservationKey(obs) == [segment_id |-> obs.segment_id, date |-> obs.date]

\* the network tables enumerated: NSegments segments of one road
NetworkTables ==
    {[i \in 1..NSegments |->
        [road_id |-> RoadName(1),
         segment_id |-> InputSegmentId(i),
         road_type |-> kinds[i].road_type,
         traffic_volume |-> kinds[i].traffic_volume]] :
     kinds \in [1..NSegments -> RoadKinds]}

\* state on entry, for a given network table
InitCond ==
    /\ roads_df \in NetworkTables
    /\ current_date = start_date
    /\ road_idx = 0
    /\ condition_data = <<>>
    /\ observation = NoObservation

\* values of the generator's variables while another generator runs
IdleCond ==
    /\ roads_df = <<>>
    /\ current_date = start_date
    /\ road_idx = 0
    /\ condition_data = <<>>
    /\ observation = NoObservation

\* while current_date <= end_date: the test passes
CondEnter ==
    /\ pc = "dates"
    /\ InRange(current_date)
    /\ road_idx' = 0
    /\ pc' = "roads"
    /\ UNCHANGED <<roads_df, current_date, condition_data, observation>>
    /\ UNCHANGED <<netVars, maintVars>>

\* one iteration of "for _, road in roads_df.iterrows()"
CondRow ==
    /\ pc = "roads"
    /\ road_idx < Len(roads_df)
    /\ \E random_factor \in RandomFactorValues,
          crackNoise \in CrackingNoiseValues,
          potholeNoise \in PotholeNoiseValues,
          freezeThaw \in FreezeThawDraws(current_date.month) :
          \E obs \in Observations(roads_df[road_idx + 1], current_date,
                                   random_factor, crackNoise, potholeNoise,
                                   freezeThaw) :
              /\ observation' = obs
              /\ condition_data' = Append(condition_data, ObservationKey(obs))
    /\ road_idx' = road_idx + 1
    /\ UNCHANGED <<pc, roads_df, current_date>>
    /\ UNCHANGED <<netVars, maintVars>>

\* the rows are exhausted: "Move to next quarter"
CondStep ==
    /\ pc = "roads"
    /\ road_idx = Len(roads_df)
    /\ current_date' = NextDate(current_date)
    /\ pc' = "dates"
    /\ UNCHANGED <<roads_df, road_idx, condition_data, observation>>
    /\ UNCHANGED <<netVars, maintVars>>

\* the while test fails: return pd.DataFrame(condition_data)
CondDone ==
    /\ pc = "dates"
    /\ ~InRange(current_date)
    /\ pc' = "condition_done"
    /\ UNCHANGED <<condVars, netVars, maintVars>>

(***************************************************************************)
(* generate_road_network()                                                 *)
(***************************************************************************)
LaneValues == {2, 3, 4, 5, 6}
RoadTypes == {"Highway", "Arterial", "Collector", "Local"}
\* a traffic draw, whose whole part is far above a score's, in thousandths
Milli(n) == n * 1000

\* np.random.normal(mean, sd) - mean: the deviations enumerated
TrafficDeviations == {-Milli(100000), -500, 617900}

\* the mean of the traffic draw of a road type
TrafficMean(road_type) ==
    IF road_type = "Highway" THEN 75000
    ELSE IF road_type = "Arterial" THEN 35000
    ELSE IF road_type = "Collector" THEN 15000
    ELSE 5000

\* max(1000, int(traffic_volume))
TrafficVolume(road_type, deviation) ==
    Max(1000, TruncToInt(Milli(TrafficMean(road_type)) + deviation, Milli(1)))

\* the dict appended to roads
RoadRow(r, s, road_type, lanes, deviation) ==
    [road_id |-> RoadName(r),
     segment_id |-> SegmentId(RoadName(r), s),
     road_type |-> road_type,
     lanes |-> lanes,
     traffic_volume |-> TrafficVolume(road_type, deviation)]

NoRoadRow ==
    [road_id |-> "", segment_id |-> "", road_type |-> "", lanes |-> 0,
     traffic_volume |-> 0]

RoadKey(rr) == [road_id |-> rr.road_id, segment_id |-> rr.segment_id]

InitNet ==
    /\ road_id = 0
    /\ n_segments_road = 0
    /\ seg_id = 0
    /\ roads = <<>>
    /\ road_row = NoRoadRow

\* for road_id in range(1, n_roads + 1): the next road and its Poisson draw
NetRoad ==
    /\ pc = "net_roads"
    /\ road_id < NRoads
    /\ road_id' = road_id + 1
    /\ \E n \in 0..MaxSegmentsPerRoad :
          /\ n_segments_road' = n
          /\ pc' = IF n = 0 THEN "net_roads" ELSE "net_segments"
    /\ seg_id' = 0
    /\ UNCHANGED <<roads, road_row>>
    /\ UNCHANGED <<condVars, maintVars>>

\* one iteration of "for seg_id in range(1, n_segments_road + 1)"
NetSegment ==
    /\ pc = "net_segments"
    /\ seg_id < n_segments_road
    /\ seg_id' = seg_id + 1
    /\ \E lanes \in LaneValues, road_type \in RoadTypes,
          deviation \in TrafficDeviations :
          LET rr == RoadRow(road_id, seg_id + 1, road_type, lanes, deviation)
          IN  /\ road_row' = rr
              /\ roads' = Append(roads, RoadKey(rr))
    /\ pc' = IF seg_id + 1 = n_segments_road THEN "net_roads" ELSE "net_segments"
    /\ UNCHANGED <<road_id, n_segments_road>>
    /\ UNCHANGED <<condVars, maintVars>>

\* return pd.DataFrame(roads)
NetDone ==
    /\ pc = "net_roads"
    /\ road_id = NRoads
    /\ pc' = "network_done"
    /\ UNCHANGED <<netVars, condVars, maintVars>>

(***************************************************************************)
(* Specifications: one per generator.                                      *)
(***************************************************************************)
\* the maintenance replay over a condition table
Init == pc = "segment" /\ InitMaint /\ InitNet /\ IdleCond
Next == MaintSegment \/ MaintRow \/ MaintDone
Spec == Init /\ [][Next]_vars

\* the condition generator over a network table
InitCondition == pc = "dates" /\ InitCond /\ InitNet /\ InitMaint
NextCondition == CondEnter \/ CondRow \/ CondStep \/ CondDone
SpecCondition == InitCondition /\ [][NextCondition]_vars

\* the network generator
InitNetwork == pc = "net_roads" /\ InitNet /\ IdleCond /\ InitMaint
NextNetwork == NetRoad \/ NetSegment \/ NetDone
SpecNetwork == InitNetwork /\ [][NextNetwork]_vars

(***************************************************************************)
(* Claims about generate_maintenance_records, checked under Spec.          *)
(***************************************************************************)
\* a step that replays one observation (only MaintRow is enabled at "rows")
ReplayStep == pc = "rows" /\ row_idx' = row_idx + 1

\* the step appended one event, and it is the event of the observation replayed
EventRecorded ==
    /\ Len(maintenance_records') = Len(maintenance_records) + 1
    /\ SubSeq(maintenance_records', 1, Len(maintenance_records)) = maintenance_records
    /\ record' # NoRecord
    /\ maintenance_records'[Len(maintenance_records')] = RecordKey(record')
    /\ record'.segment_id = row'.segment_id
    /\ record'.date = row'.date
    /\ record'.condition_before = row'.condition_score

\* the step appended nothing
NoEventRecorded ==
    /\ maintenance_records' = maintenance_records
    /\ record' = NoRecord

\* the spacing of the doubles from 8 to 16 is 2^-49; half of it, in the units
\* of DoubleError
HalfSpacingAt15 == Pow2(6) * Pts(1)

\* C1: replaying a segment's observations in chronological order, an event is
\* recorded for an observation if and only if its score is below 60, or its
\* pothole count is above 5, or the last known condition minus its score, the
\* two being the doubles the program holds, is above 15, or a prior repair of
\* the segment exists and lies more than 365 days before it; with no prior
\* repair the elapsed-days test never fires.
C1_TriggerIffAnyCondition ==
    [][ReplayStep =>
          LET fires ==
                  \/ row'.condition_score < Pts(60)
                  \/ row'.pothole_count > 5
                  \/ last_condition - row'.condition_score > Pts(15)
                  \/ /\ last_condition - row'.condition_score = Pts(15)
                     /\ DoubleError(last_condition)
                            - DoubleError(row'.condition_score) > HalfSpacingAt15
                  \/ /\ last_repair_date # None
                     /\ Ordinal(row'.date) - Ordinal(last_repair_date) > 365
          IN  /\ row'.segment_id = SegmentIds[segment_idx]
              /\ row_idx > 0 => Ordinal(row.date) < Ordinal(row'.date)
              /\ IF fires THEN EventRecorded ELSE NoEventRecorded
              /\ needs_repair' = fires]_vars

\* C1 witness: an event recorded for an observation with a perfect score and no
\* potholes, which only the elapsed-days trigger can have caused.
C1_Witness ==
    /\ needs_repair
    /\ record # NoRecord
    /\ row.condition_score = Pts(100)
    /\ row.pothole_count = 0
    /\ row_idx = 5

\* the first observation of a segment scored 70 with no potholes was replayed
FirstObservationAt70 ==
    /\ row_idx = 1
    /\ row.condition_score = Pts(70)
    /\ row.pothole_count = 0

\* C2 as stated: for a segment at a constant score of 70 with zero potholes and
\* no prior repair, the first observation replayed triggers no repair.
C2_Original == FirstObservationAt70 => (~needs_repair /\ record = NoRecord)

\* C2 amended: for such a segment the first observation is replayed from last
\* known condition 100 and no last repair date, and it triggers a repair: the
\* drop 100 - 70 = 30 exceeds 15, while the score is not below 60, the pothole
\* count is not above 5 and the elapsed-days test cannot fire.
C2_FirstObservationAt70Repairs ==
    [][(ReplayStep /\ row_idx = 0
          /\ row'.condition_score = Pts(70) /\ row'.pothole_count = 0) =>
          /\ last_condition = Pts(100)
          /\ last_repair_date = None
          /\ last_condition - row'.condition_score = Pts(30)
          /\ ~(row'.condition_score < Pts(60))
          /\ ~(row'.pothole_count > 5)
          /\ needs_repair'
          /\ EventRecorded
          /\ record'.repair_type \in {"crack_sealing", "preventive_maintenance"}]_vars

\* C2 witness: the first observation of a segment, scored 70 with no potholes,
\* has been replayed and has triggered a repair.
C2_Witness == FirstObservationAt70 /\ needs_repair /\ record # NoRecord

\* C3: every recorded event's repair category follows the priority chain on the
\* observation that triggered it: score below 40 gives resurfacing; otherwise
\* more than 3 potholes give pothole_patch; otherwise cracking above 20 gives
\* crack_sealing; otherwise preventive_maintenance.  A score below 40 records
\* resurfacing whatever the pothole count and the cracking percent.
C3_RepairCategoryChain ==
    record # NoRecord =>
        /\ record.segment_id = row.segment_id /\ record.date = row.date
        /\ row.condition_score < Pts(40) => record.repair_type = "resurfacing"
        /\ (row.condition_score >= Pts(40) /\ row.pothole_count > 3)
              => record.repair_type = "pothole_patch"
        /\ (row.condition_score >= Pts(40) /\ row.pothole_count <= 3
              /\ row.cracking_percent > Pts(20))
              => record.repair_type = "crack_sealing"
        /\ (row.condition_score >= Pts(40) /\ row.pothole_count <= 3
              /\ row.cracking_percent <= Pts(20))
              => record.repair_type = "preventive_maintenance"
        /\ record.condition_before < Pts(40) => record.repair_type = "resurfacing"

\* C3 witness: a segment's first observation drops from 100 to 30 with more
\* than 3 potholes and cracking above 20, and the event says resurfacing.
C3_Witness ==
    /\ row_idx = 1
    /\ row.condition_score = Pts(30)
    /\ row.pothole_count = 6
    /\ row.cracking_percent > Pts(20)
    /\ record.repair_type = "resurfacing"

\* the text of every identifier the counter can produce in the model
IdTexts == [n \in 1..(NPeriods * NSegments + 1) |-> MaintenanceIdText(n)]

\* the number an identifier's text stands for
IdNumber(text) == CHOOSE n \in DOMAIN IdTexts : IdTexts[n] = text

\* C4: across the whole output, in the order events are appended, the numeric
\* maintenance identifiers are strictly increasing and no two events share an
\* identifier; the counter is never reset between segments and is incremented
\* exactly once per recorded event.
C4_IdentifiersIncreasing ==
    /\ \A i \in 1..Len(maintenance_records) :
          /\ maintenance_records[i].maintenance_id \in {IdTexts[n] : n \in DOMAIN IdTexts}
          /\ \A j \in 1..Len(maintenance_records) :
                i < j =>
                  /\ IdNumber(maintenance_records[i].maintenance_id)
                        < IdNumber(maintenance_records[j].maintenance_id)
                  /\ maintenance_records[i].maintenance_id
                        # maintenance_records[j].maintenance_id
    /\ maintenance_id = Len(maintenance_records) + 1
    /\ Len(maintenance_records) > 0 =>
          IdNumber(maintenance_records[Len(maintenance_records)].maintenance_id)
              = maintenance_id - 1

\* C4 witness: the finished output holds events of two different segments.
C4_Witness ==
    /\ pc = "maintenance_done"
    /\ Len(maintenance_records) >= 3
    /\ maintenance_records[1].segment_id
          # maintenance_records[Len(maintenance_records)].segment_id

\* C9: after replaying an observation with score s, a triggered repair leaves
\* last known condition min(100, s + 20) and the last-repair date at the
\* observation's date; no repair leaves last known condition s and the
\* last-repair date unchanged.  Entering a segment sets both afresh (100,
\* unset), whatever the previous segment left.
C9_RunningStateUpdate ==
    [][/\ ReplayStep =>
            IF Len(maintenance_records') > Len(maintenance_records)
            THEN /\ last_condition' =
                      (IF row'.condition_score + Pts(20) > Pts(100)
                       THEN Pts(100) ELSE row'.condition_score + Pts(20))
                 /\ last_repair_date' = row'.date
            ELSE /\ last_condition' = row'.condition_score
                 /\ last_repair_date' = last_repair_date
       /\ (pc = "segment" /\ pc' = "rows") =>
            /\ last_condition' = Pts(100)
            /\ last_repair_date' = None
            /\ maintenance_records' = maintenance_records]_vars

\* C9 witness: in the second segment, after repairs in the first, the first
\* observation (score 85) triggers nothing: it was judged against 100 and
\* an unset repair date, not against what the first segment left.
C9_Witness ==
    /\ segment_idx = 2
    /\ row_idx = 1
    /\ Len(maintenance_records) > 0
    /\ ~needs_repair
    /\ row.condition_score = Pts(85)
    /\ last_condition = Pts(85)
    /\ last_repair_date = None

(***************************************************************************)
(* Claims about generate_pavement_condition_data, checked under            *)
(* SpecCondition.                                                          *)
(***************************************************************************)
\* C5: every observation produced, for any segment attributes and any noise
\* draws, has a condition score between 0 and 100 and a pothole count, a
\* freeze-thaw cycle count and a cracking percent that are not negative.
C5_ObservationRanges ==
    /\ 0 <= observation.condition_score
    /\ observation.condition_score <= Pts(100)
    /\ observation.pothole_count >= 0
    /\ observation.freeze_thaw_cycles >= 0
    /\ observation.cracking_percent >= 0

\* C5 witness: an observation whose score was cut off at 100 and whose
\* cracking percent was cut off at 0 has been produced.
C5_Witness ==
    /\ observation # NoObservation
    /\ observation.condition_score = Pts(100)
    /\ observation.cracking_percent = 0
    /\ observation.pothole_count = 3

\* the j-th quarter start counted from January 2020 (j = 0, 1, ...)
QuarterStart(j) == Date(2020 + (j \div 4), 1 + 3 * (j % 4), 1)

\* C8: the date loop visits exactly the 20 quarter starts of 2020 through 2024
\* in increasing order and then ends; at each date it emits one observation
\* per segment, in network order, so every (segment, date) pair occurs once,
\* and the loop variable is never on a month that takes the monthly branch.
C8_QuarterlyDates ==
    /\ current_date.day = 1
    /\ current_date.month \in {1, 4, 7, 10}
    /\ Len(condition_data) <= 20 * Len(roads_df)
    /\ \A k \in 1..Len(condition_data) :
          /\ condition_data[k].date = QuarterStart((k - 1) \div Len(roads_df))
          /\ condition_data[k].segment_id
                = roads_df[((k - 1) % Len(roads_df)) + 1].segment_id
          /\ \A j \in 1..Len(condition_data) :
                j # k => condition_data[j] # condition_data[k]
          /\ k > 1 =>
                Ordinal(condition_data[k - 1].date) <= Ordinal(condition_data[k].date)
    /\ pc = "roads" =>
          /\ current_date = QuarterStart((Len(condition_data) - road_idx) \div Len(roads_df))
          /\ (Len(condition_data) - road_idx) % Len(roads_df) = 0
    /\ pc = "condition_done" =>
          /\ Len(condition_data) = 20 * Len(roads_df)
          /\ current_date = Date(2025, 1, 1)
    /\ pc # "condition_done" => ENABLED NextCondition

\* C8 witness: the loop has ended after the observations of the last quarter
\* of 2024.
C8_Witness ==
    /\ pc = "condition_done"
    /\ Len(condition_data) = 20 * NSegments
    /\ condition_data[Len(condition_data)].date = Date(2024, 10, 1)
    /\ observation.date = Date(2024, 10, 1)

(***************************************************************************)
(* Claims about generate_road_network, checked under SpecNetwork.          *)
(***************************************************************************)
IsPrefix(p, s) == Len(p) <= Len(s) /\ SubSeq(s, 1, Len(p)) = p

\* the identifiers of the roads the generator makes
RoadIds == {RoadName(n) : n \in 1..NRoads}

\* the sequence-number texts a segment identifier can end with
SequenceTexts == {ZeroPad(ToString(n), 3) : n \in 1..MaxSegmentsPerRoad}

\* C7: every segment row references exactly one road whose identifier is the
\* prefix of the segment identifier (segment_id = road_id + "_S" + sequence
\* number), and no two segment rows share a segment identifier.
C7_SegmentHasOneRoad ==
    /\ \A k \in 1..Len(roads) :
          /\ roads[k].road_id \in RoadIds
          /\ {id \in RoadIds : IsPrefix(id, roads[k].segment_id)} = {roads[k].road_id}
          /\ \E t \in SequenceTexts :
                roads[k].segment_id = roads[k].road_id \o "_S" \o t
          /\ \A j \in 1..Len(roads) :
                j # k => roads[j].segment_id # roads[k].segment_id
    /\ Len(roads) > 0 => roads[Len(roads)] = RoadKey(road_row)

\* C7 witness: the generator has finished with every road at its largest
\* segment count, so equal sequence numbers occur under different roads.
C7_Witness ==
    /\ pc = "network_done"
    /\ Len(roads) = NRoads * MaxSegmentsPerRoad
    /\ roads[1].road_id # roads[Len(roads)].road_id

\* C10 as stated: road category, lane count and traffic-volume baseline are
\* drawn once per road, so two segment rows with the same road_id carry the same
\* road_type, lanes and traffic_volume.  Stated for two rows appended one after
\* the other.
C10_RoadAttributesShared ==
    [][(road_row.road_id = road_row'.road_id) =>
          /\ road_row'.road_type = road_row.road_type
          /\ road_row'.lanes = road_row.lanes
          /\ road_row'.traffic_volume = road_row.traffic_volume]_vars

(***************************************************************************)
(* The repair cascade of generate_maintenance_records, checked under Spec. *)
(***************************************************************************)
\* the number of events recorded so far for a segment
EventsOfSegment(recs, segment_id) ==
    Len(SelectSeq(recs, LAMBDA k : k.segment_id = segment_id))

\* C11: in a segment all of whose scores are below 85 and whose score never
\* rises by 5 or more from one observation to the next, every observation
\* records an event.  Stated by induction along the segment: the first
\* observation, if below 85, records an event; a later observation below 85
\* that rises by less than 5 over its predecessor, itself below 85, records an
\* event whenever every observation of the segment before it did.
C11_RepairCascade ==
    [][(/\ ReplayStep
        /\ row'.condition_score < Pts(85)
        /\ \/ row_idx = 0
           \/ /\ EventsOfSegment(maintenance_records, SegmentIds[segment_idx]) = row_idx
              /\ row.condition_score < Pts(85)
              /\ row'.condition_score - row.condition_score < Pts(5))
       => /\ EventRecorded
          /\ needs_repair'
          /\ last_condition - row'.condition_score > Pts(15)
          /\ EventsOfSegment(maintenance_records', SegmentIds[segment_idx])
                = row_idx + 1]_vars

\* C11 witness: the third observation of a segment, at 70 with no potholes as
\* its predecessor was, has recorded the segment's third event: nothing but
\* the drop from the post-repair 90 can have caused it.
C11_Witness ==
    /\ row_idx = 3
    /\ EventsOfSegment(maintenance_records, SegmentIds[segment_idx]) = 3
    /\ row.condition_score = Pts(70)
    /\ row.pothole_count = 0
    /\ needs_repair
    /\ last_condition = Pts(90)
    /\ Ordinal(row.date) - Ordinal(PeriodDate(2)) <= 365

====
